---- MODULE Spec2Model ----
(***************************************************************************)
(* Vector autoregression: scikits/statsmodels/tsa/var/model.py.            *)
(*                                                                         *)
(* Numbers are exact rationals <<n, d>> in lowest terms with d > 0, plus   *)
(* the three non-finite values of floating point: <<0, 0>> is nan,         *)
(* <<1, 0>> is +inf and <<-1, 0>> is -inf.  Matrices are sequences of      *)
(* rows.  Rounding error of floating point is not modelled.                *)
(***************************************************************************)
EXTENDS Integers, Sequences, FiniteSets, TLC

VARIABLES model, obj, call, ret, events

vars == <<model, obj, call, ret, events>>

(***************************************************************************)
(* Evaluation order.  The(S) is the element of a one-element set: the      *)
(* value The({e : x \in {v}}) is e with x standing for v, where v is       *)
(* evaluated once, as a Python call evaluates its arguments and a local    *)
(* variable holds a value.                                                 *)
(***************************************************************************)
The(S) == CHOOSE x \in S : TRUE

(***************************************************************************)
(* Scalars                                                                 *)
(***************************************************************************)
Abs(x) == IF x < 0 THEN -x ELSE x

Sgn(x) == IF x < 0 THEN -1 ELSE IF x > 0 THEN 1 ELSE 0

RECURSIVE Gcd(_, _)
Gcd(a0, b0) == The({IF b = 0 THEN a ELSE Gcd(b, a % b) : a \in {a0}, b \in {b0}})

\* the float n / d; a zero divisor gives nan or a signed infinity
Frac(n0, d0) ==
    The({IF d = 0 THEN <<Sgn(n), 0>>
         ELSE The({<<Sgn(n) * Sgn(d) * (Abs(n) \div g), Abs(d) \div g>> :
                   g \in {Gcd(Abs(n), Abs(d))}}) :
         n \in {n0}, d \in {d0}})

Num(n) == <<n, 1>>

NaN == <<0, 0>>

IsNaN(a) == a = NaN

IsFinite(a) == a[2] # 0

RAdd(a0, b0) ==
    The({IF a[2] = 0 /\ b[2] = 0 THEN (IF a[1] = b[1] THEN a ELSE NaN)
         ELSE IF a[2] = 0 THEN a
         ELSE IF b[2] = 0 THEN b
         ELSE The({Frac(a[1] * (b[2] \div g) + b[1] * (a[2] \div g), (a[2] \div g) * b[2]) :
                   g \in {Gcd(a[2], b[2])}}) :
         a \in {a0}, b \in {b0}})

RNeg(a0) == The({<<-a[1], a[2]>> : a \in {a0}})

RSub(a, b) == RAdd(a, RNeg(b))

RMul(a0, b0) ==
    The({IF a[2] = 0 \/ b[2] = 0 THEN <<Sgn(a[1]) * Sgn(b[1]), 0>>
         ELSE The({Frac((a[1] \div g) * (b[1] \div h), (a[2] \div h) * (b[2] \div g)) :
                   g \in {Gcd(Abs(a[1]), b[2])}, h \in {Gcd(Abs(b[1]), a[2])}}) :
         a \in {a0}, b \in {b0}})

RDiv(a0, b0) ==
    The({IF b[2] = 0 THEN (IF a[2] = 0 THEN NaN ELSE Num(0))
         ELSE IF a[2] = 0 THEN <<a[1] * (IF b[1] < 0 THEN -1 ELSE 1), 0>>
         ELSE IF b[1] = 0 THEN <<Sgn(a[1]), 0>>
         ELSE RMul(a, <<Sgn(b[1]) * b[2], Abs(b[1])>>) :
         a \in {a0}, b \in {b0}})

\* a < b as floating point compares: false when either side is nan
RLt(a0, b0) ==
    The({IF IsNaN(a) \/ IsNaN(b) THEN FALSE
         ELSE IF a[2] = 0 /\ b[2] = 0 THEN a[1] < b[1]
         ELSE IF a[2] = 0 THEN a[1] < 0
         ELSE IF b[2] = 0 THEN b[1] > 0
         ELSE The({a[1] * (b[2] \div g) < b[1] * (a[2] \div g) : g \in {Gcd(a[2], b[2])}}) :
         a \in {a0}, b \in {b0}})

RLeq(a0, b0) == The({~IsNaN(a) /\ ~IsNaN(b) /\ ~RLt(b, a) : a \in {a0}, b \in {b0}})

RAbs(a0) == The({<<Abs(a[1]), a[2]>> : a \in {a0}})

RECURSIVE RPow(_, _)
RPow(a0, n0) ==
    The({IF n = 0 THEN Num(1) ELSE RMul(a, RPow(a, n - 1)) : a \in {a0}, n \in {n0}})

RECURSIVE RSum(_)
RSum(s0) == The({IF s = <<>> THEN Num(0) ELSE RAdd(s[1], RSum(Tail(s))) : s \in {s0}})

(***************************************************************************)
(* Matrices                                                                *)
(***************************************************************************)
NRows(A) == Len(A)

NCols(A0) == The({IF A = <<>> THEN 0 ELSE Len(A[1]) : A \in {A0}})

Zeros(m, n) == [i \in 1..m |-> [j \in 1..n |-> Num(0)]]

Eye(n) == [i \in 1..n |-> [j \in 1..n |-> IF i = j THEN Num(1) ELSE Num(0)]]

Transpose(A0) ==
    The({[j \in 1..NCols(A) |-> [i \in 1..NRows(A) |-> A[i][j]]] : A \in {A0}})

MatAdd(A0, B0) ==
    The({[i \in 1..NRows(A) |-> [j \in 1..NCols(A) |-> RAdd(A[i][j], B[i][j])]] :
         A \in {A0}, B \in {B0}})

MatSub(A0, B0) ==
    The({[i \in 1..NRows(A) |-> [j \in 1..NCols(A) |-> RSub(A[i][j], B[i][j])]] :
         A \in {A0}, B \in {B0}})

MatScale(c0, A0) ==
    The({[i \in 1..NRows(A) |-> [j \in 1..NCols(A) |-> RMul(c, A[i][j])]] :
         c \in {c0}, A \in {A0}})

MatDivScalar(A0, c0) ==
    The({[i \in 1..NRows(A) |-> [j \in 1..NCols(A) |-> RDiv(A[i][j], c)]] :
         A \in {A0}, c \in {c0}})

\* np.dot of an (m x n) and an (n x q) matrix
Dot(A0, B0) ==
    The({[i \in 1..NRows(A) |-> [j \in 1..NCols(B) |->
             RSum([l \in 1..NRows(B) |-> RMul(A[i][l], B[l][j])])]] :
         A \in {A0}, B \in {B0}})

\* np.dot of a matrix and a vector
DotVec(A0, v0) ==
    The({[i \in 1..NRows(A) |-> RSum([l \in 1..Len(v) |-> RMul(A[i][l], v[l])])] :
         A \in {A0}, v \in {v0}})

VecAdd(u0, v0) ==
    The({[i \in 1..Len(u) |-> RAdd(u[i], v[i])] : u \in {u0}, v \in {v0}})

\* A without row r and column c
Minor(A0, r, c) ==
    The({[i \in 1..(NRows(A) - 1) |-> [j \in 1..(NCols(A) - 1) |->
             A[IF i < r THEN i ELSE i + 1][IF j < c THEN j ELSE j + 1]]] :
         A \in {A0}})

RECURSIVE Det(_)
Det(A0) ==
    The({IF NRows(A) = 0 THEN Num(1)
         ELSE IF NRows(A) = 1 THEN A[1][1]
         ELSE RSum([j \in 1..NCols(A) |->
                 RMul(IF j % 2 = 1 THEN A[1][j] ELSE RNeg(A[1][j]),
                      Det(Minor(A, 1, j)))]) :
         A \in {A0}})

\* the adjugate of A over the determinant d
AdjOver(A0, d0) ==
    The({[i \in 1..NRows(A) |-> [j \in 1..NRows(A) |->
             RDiv(IF (i + j) % 2 = 0 THEN Det(Minor(A, j, i))
                  ELSE RNeg(Det(Minor(A, j, i))), d)]] :
         A \in {A0}, d \in {d0}})

\* the inverse of a nonsingular square matrix
Inv(A0) == The({AdjOver(A, Det(A)) : A \in {A0}})

\* np.kron
Kron(A0, B0) ==
    The({[i \in 1..(NRows(A) * NRows(B)) |-> [j \in 1..(NCols(A) * NCols(B)) |->
             RMul(A[((i - 1) \div NRows(B)) + 1][((j - 1) \div NCols(B)) + 1],
                  B[((i - 1) % NRows(B)) + 1][((j - 1) % NCols(B)) + 1])]] :
         A \in {A0}, B \in {B0}})

Trace(A0) == The({RSum([i \in 1..NRows(A) |-> A[i][i]]) : A \in {A0}})

Diag(A0) == The({[i \in 1..NRows(A) |-> A[i][i]] : A \in {A0}})

\* chain_dot(A, B, C)
Dot3(A, B, C) == Dot(Dot(A, B), C)

RECURSIVE MatSum(_, _, _)
\* the sum of a sequence of (m x n) matrices, starting from zeros
MatSum(ms0, m, n) ==
    The({IF ms = <<>> THEN Zeros(m, n) ELSE MatAdd(MatSum(Tail(ms), m, n), ms[1]) :
         ms \in {ms0}})

\* tsatools.vec: the columns of A stacked
vec(A0) ==
    The({[i \in 1..(NRows(A) * NCols(A)) |->
             A[((i - 1) % NRows(A)) + 1][((i - 1) \div NRows(A)) + 1]] :
         A \in {A0}})

\* tsatools.unvec: the square matrix whose stacked columns are v
unvec(v0, n) == The({[i \in 1..n |-> [j \in 1..n |-> v[(j - 1) * n + i]]] : v \in {v0}})

(***************************************************************************)
(* Least squares                                                           *)
(***************************************************************************)
Cols(Z0, S0) ==
    The({[i \in 1..NRows(Z) |-> [c \in 1..Len(S) |-> Z[i][S[c]]]] : Z \in {Z0}, S \in {S0}})

Gram(F0) == The({Dot(Transpose(F), F) : F \in {F0}})

RECURSIVE IndepCols(_, _)
\* the indices, among the first j columns of Z, of a maximal set of linearly
\* independent columns (each column kept when independent of those kept)
IndepCols(Z, j) ==
    IF j = 0 THEN <<>>
    ELSE The({IF Det(Gram(Cols(Z, Append(S, j)))) = Num(0) THEN S ELSE Append(S, j) :
              S \in {IndepCols(Z, j - 1)}})

\* the Moore-Penrose inverse G^T (G G^T)^-1 (F^T F)^-1 F^T of Z = F G, given
\* H = (F^T F)^-1 F^T
pinv_of(Z0, H0) ==
    The({The({Dot3(Transpose(G), Inv(Dot(G, Transpose(G))), H) : G \in {Dot(H, Z)}}) :
         Z \in {Z0}, H \in {H0}})

\* the Moore-Penrose inverse of an (m x n) matrix with m, n >= 1, from the
\* full-rank factorisation Z = F G, F a maximal set of independent columns
pinv(Z0) ==
    The({The({IF S = <<>> THEN Zeros(NCols(Z), NRows(Z))
              ELSE The({pinv_of(Z, Dot(Inv(Gram(F)), Transpose(F))) : F \in {Cols(Z, S)}}) :
              S \in {IndepCols(Z, NCols(Z))}}) :
         Z \in {Z0}})

\* np.linalg.lstsq(z, y)[0]: the least-squares solution of least norm; a z
\* without columns has the empty solution
lstsq(z, y) == IF NCols(z) = 0 THEN <<>> ELSE Dot(pinv(z), y)

(***************************************************************************)
(* Outcomes of a call: a returned value or a raised exception              *)
(***************************************************************************)
Ok(v) == [ok |-> TRUE, val |-> v]

Raise(e) == [ok |-> FALSE, exc |-> e]

\* an exception raised with a message: the format string and the values it
\* is filled with, each a sequence of strings
RaiseMsg(e, format, args) ==
    [ok |-> FALSE, exc |-> e, msg |-> [format |-> format, args |-> args]]

\* an optional argument: None, or Some(x) when it is given
None == <<>>

Some(x) == <<x>>

\* an ndarray of shape (p, k, k): the sequence a of p matrices, each k x k
Tensor(k, a) == [k |-> k, a |-> a]

AllFinite(A0) ==
    The({\A i \in 1..NRows(A) : \A j \in 1..Len(A[i]) : IsFinite(A[i][j]) : A \in {A0}})

\* scipy.linalg.inv(A) given the determinant d of A: the entries are checked
\* to be finite, and a singular matrix raises
L_inv_with(A0, d0) ==
    The({IF ~AllFinite(A) THEN Raise("ValueError")
         ELSE IF d = Num(0) THEN Raise("LinAlgError")
         ELSE Ok(AdjOver(A, d)) :
         A \in {A0}, d \in {d0}})

L_inv(A0) == The({L_inv_with(A, Det(A)) : A \in {A0}})

(***************************************************************************)
(* VAR process routines                                                    *)
(***************************************************************************)
Min(a, b) == IF a < b THEN a ELSE b

\* phis[i] with the inner loop left at j >= p, the term of lag p lost
ma_rep_step_short(coefs0, prev0, i) ==
    The({MatSum([j \in 1..Min(i, Len(coefs.a) - 1) |-> Dot(prev[i - j + 1], coefs.a[j])],
                coefs.k, coefs.k) :
         coefs \in {coefs0}, prev \in {prev0}})

\* phis[i] of ma_rep, given phis[0..i-1] as the sequence prev
ma_rep_step(coefs0, prev0, i) ==
    The({MatSum([j \in 1..Min(i, Len(coefs.a)) |-> Dot(prev[i - j + 1], coefs.a[j])],
                coefs.k, coefs.k) :
         coefs \in {coefs0}, prev \in {prev0}})

RECURSIVE ma_rep(_, _)
\* phis[0..maxn] as a sequence of maxn + 1 matrices
ma_rep(coefs, maxn) ==
    IF maxn = 0 THEN <<Eye(coefs.k)>>
    ELSE The({Append(prev, ma_rep_step(coefs, prev, maxn)) :
              prev \in {ma_rep(coefs, maxn - 1)}})

\* util.comp_matrix: the kp x kp companion matrix, top block row A_1..A_p,
\* the remaining block rows a shifted identity
comp_matrix(coefs0) ==
    The({[i \in 1..(coefs.k * Len(coefs.a)) |-> [j \in 1..(coefs.k * Len(coefs.a)) |->
             IF i <= coefs.k
             THEN coefs.a[((j - 1) \div coefs.k) + 1][i][((j - 1) % coefs.k) + 1]
             ELSE IF j = i - coefs.k THEN Num(1) ELSE Num(0)]] :
         coefs \in {coefs0}})

\* the two roots (t + s * sqrt(d)) / 2, s = 1, -1, of x^2 - t x + (t^2 - d) / 4
roots(t0, d0) ==
    The({<<[t |-> t, d |-> d, s |-> 1], [t |-> t, d |-> d, s |-> -1]>> :
         t \in {t0}, d \in {d0}})

\* np.linalg.eigvals of a 1 x 1 or 2 x 2 matrix: the roots of
\* x^2 - t x + det, each the number (t + s * sqrt(d)) / 2 with d = t^2 - 4 det
\* (a complex pair when d < 0)
eigvals(A0) ==
    The({IF NRows(A) = 1
         THEN <<[t |-> RMul(Num(2), A[1][1]), d |-> Num(0), s |-> 1]>>
         ELSE roots(Trace(A), RSub(RMul(Trace(A), Trace(A)), RMul(Num(4), Det(A)))) :
         A \in {A0}})

RSgn(a) == Sgn(a[1])

RSq(a0) == The({RMul(a, a) : a \in {a0}})

\* the sign of np.abs(e) - 1 for an eigenvalue e = (t + s * sqrt(d)) / 2
AbsVsOne(e0) ==
    The({IF RSgn(e.d) < 0 THEN RSgn(RSub(RSub(RSq(e.t), e.d), Num(4)))
         ELSE IF e.s * RSgn(e.t) >= 0
         THEN (IF RLt(Num(2), RAbs(e.t)) THEN 1
               ELSE RSgn(RSub(e.d, RSq(RSub(Num(2), RAbs(e.t))))))
         ELSE IF RLeq(RSq(RAbs(e.t)), e.d)
         THEN RSgn(RSub(e.d, RSq(RAdd(Num(2), RAbs(e.t)))))
         ELSE IF RLt(RAbs(e.t), Num(2)) THEN -1
         ELSE RSgn(RSub(RSq(RSub(RAbs(e.t), Num(2))), e.d)) :
         e \in {e0}})

RangeOf(s0) == The({{s[i] : i \in 1..Len(s)} : s \in {s0}})

\* every eigenvalue of the companion matrix is inside the unit circle, none
\* on it
is_stable_strict(coefs) ==
    \A e \in RangeOf(eigvals(comp_matrix(coefs))) : AbsVsOne(e) < 0

\* is_stable: (np.abs(eigs) <= 1).all()
is_stable(coefs) ==
    \A e \in RangeOf(eigvals(comp_matrix(coefs))) : AbsVsOne(e) <= 0

\* scipy.linalg.solve(M, b)
L_solve(M, b0) ==
    The({IF ~inv.ok THEN inv ELSE Ok(DotVec(inv.val, b)) : inv \in {L_inv(M)}, b \in {b0}})

\* sigma_u as the leading block of a (n x n) matrix of zeros
padded(sig_u0, n) ==
    The({[i \in 1..n |-> [j \in 1..n |->
             IF i <= Len(sig_u) /\ j <= Len(sig_u) THEN sig_u[i][j] ELSE Num(0)]] :
         sig_u \in {sig_u0}})

\* acf[:k].T of the (kp x kp) matrix acf, reshaped to (p, k, k)
acf_blocks(acf0, p, k) ==
    The({[h \in 1..p |-> [i \in 1..k |-> [j \in 1..k |-> acf[j][(h - 1) * k + i]]]] :
         acf \in {acf0}})

\* _var_acf: the autocovariances of lags 0..p-1 from the Lyapunov equation
\* of the companion form
_var_acf(coefs, sig_u) ==
    The({IF ~vecACF.ok THEN vecACF
         ELSE Ok(acf_blocks(unvec(vecACF.val, coefs.k * Len(coefs.a)),
                            Len(coefs.a), coefs.k)) :
         vecACF \in {The({L_solve(MatSub(Eye(NRows(A) * NRows(A)), Kron(A, A)),
                                  vec(padded(sig_u, NRows(A)))) :
                          A \in {comp_matrix(coefs)}})}})

RECURSIVE yule_walker(_, _, _)
\* result[0..h] of var_acf after its loop has reached lag h, from result[0..p-1]
yule_walker(coefs, first, h) ==
    IF h < Len(coefs.a) THEN first
    ELSE The({Append(prev, MatSum([j \in 1..Len(coefs.a) |->
                                      Dot(coefs.a[j], prev[h - j + 1])],
                                  coefs.k, coefs.k)) :
              prev \in {yule_walker(coefs, first, h - 1)}})

\* the nlags var_acf works with; the optional nlags is None or Some(n)
acf_nlags(coefs, nlags0) == IF nlags0 = None THEN Len(coefs.a) ELSE nlags0[1]

\* var_acf
var_acf(coefs, sig_u, nlags0) ==
    The({IF ~first.ok THEN first
         \* result[:p] = ... with result of nlags + 1 < p blocks
         ELSE IF acf_nlags(coefs, nlags0) + 1 < Len(coefs.a) THEN Raise("ValueError")
         ELSE Ok(yule_walker(coefs, first.val, acf_nlags(coefs, nlags0))) :
         first \in {_var_acf(coefs, sig_u)}})

\* y[idx] of a sequence y for a Python index idx < 0; the caller checks
\* -idx <= len(y)
NegIndex(y, idx) == y[Len(y) + idx + 1]

RECURSIVE forecast_step(_, _, _, _, _, _)
\* f of forecast's step h once the terms of lags 1..i have been added, given
\* forcs[0..h-2]
forecast_step(y, coefs, intercept, forcs, h, i) ==
    IF i = 0 THEN intercept
    ELSE VecAdd(forecast_step(y, coefs, intercept, forcs, h, i - 1),
                DotVec(coefs.a[i],
                       IF h - i <= 0 THEN NegIndex(y, h - i - 1) ELSE forcs[h - i]))

RECURSIVE forecast_rows(_, _, _, _)
\* forcs[0..h-1] of forecast after its loop has done step h
forecast_rows(y, coefs, intercept, h) ==
    IF h = 0 THEN <<>>
    ELSE The({Append(forcs, forecast_step(y, coefs, intercept, forcs, h, Len(coefs.a))) :
              forcs \in {forecast_rows(y, coefs, intercept, h - 1)}})

\* a forecast that returns no rows where the history is too short
forecast_lenient(y, coefs, intercept, steps) ==
    IF Len(coefs.a) = 0 THEN Raise("IndexError")
    ELSE IF Len(y) < Len(coefs.a) THEN Ok(<<>>)
    ELSE Ok(forecast_rows(y, coefs, intercept, steps))

\* forecast(y, coefs, intercept, steps)
forecast(y, coefs, intercept, steps) ==
    \* k = len(coefs[0])
    IF Len(coefs.a) = 0 THEN Raise("IndexError")
    \* prior_y = y[h - i - 1] beyond the start of y
    ELSE IF \E h \in 1..steps : \E i \in 1..Len(coefs.a) :
                h - i <= 0 /\ i - h + 1 > Len(y)
    THEN Raise("IndexError")
    ELSE Ok(forecast_rows(y, coefs, intercept, steps))

RECURSIVE forecast_cov(_, _, _)
\* forecast_cov(ma_coefs, sig_u, steps): forc_covs[0..steps-1]
forecast_cov(ma_coefs, sig_u, steps) ==
    IF steps = 0 THEN <<>>
    ELSE The({Append(before,
                     MatAdd(IF steps = 1 THEN Zeros(Len(sig_u), Len(sig_u))
                            ELSE before[steps - 1],
                            Dot3(ma_coefs[steps], sig_u, Transpose(ma_coefs[steps])))) :
              before \in {forecast_cov(ma_coefs, sig_u, steps - 1)}})

(***************************************************************************)
(* np.log to four decimals                                                 *)
(***************************************************************************)
RECURSIVE Pow2Below(_, _)
\* the largest e with 2^e <= n, as <<e, 2^e>>, searching up from <<e0, 2^e0>>
Pow2Below(n, cur0) ==
    The({IF 2 * cur[2] > n THEN cur ELSE Pow2Below(n, <<cur[1] + 1, 2 * cur[2]>>) :
         cur \in {cur0}})

\* 10000 * 2 atanh(z / 10000) from the first four terms of its series, given
\* z and z2 = z^2 / 10000
Atanh2(z, z2) ==
    2 * (z + ((z2 * z) \div 10000) \div 3
           + ((((z2 * z) \div 10000) * z2) \div 10000) \div 5
           + ((((((z2 * z) \div 10000) * z2) \div 10000) * z2) \div 10000) \div 7)

\* 10000 * ln(n) for an integer n >= 1: n = 2^e * (1 + f), and
\* ln(1 + f) = 2 atanh(z) with z = f / (2 + f)
LogInt(n0) ==
    The({The({(e[1] * 69315) \div 10 + Atanh2(z, (z * z) \div 10000) :
              z \in {(10000 * (n - e[2])) \div (n + e[2])}}) :
         n \in {n0}, e \in {Pow2Below(n0, <<0, 1>>)}})

\* np.log of a float
Log(a0) ==
    The({IF IsNaN(a) THEN NaN
         ELSE IF a[2] = 0 THEN (IF a[1] > 0 THEN a ELSE NaN)
         ELSE IF a[1] < 0 THEN NaN
         ELSE IF a[1] = 0 THEN <<-1, 0>>
         ELSE Frac(LogInt(a[1]) - LogInt(a[2]), 10000) :
         a \in {a0}})

\* np.exp(np.log(a)) of a float a, as info_criteria takes it of the log
\* determinant
ExpLog(a0) ==
    The({IF IsNaN(a) THEN NaN
         ELSE IF a[2] = 0 THEN (IF a[1] > 0 THEN a ELSE NaN)
         ELSE IF a[1] < 0 THEN NaN
         ELSE a :
         a \in {a0}})

(***************************************************************************)
(* class VAR                                                               *)
(***************************************************************************)
\* VAR.__init__(endog); endog is a (nobs x neqs) matrix
VAR(endog, neqs) == [y |-> endog, nobs |-> Len(endog), neqs |-> neqs]

\* util.get_trendorder
get_trendorder(trend) ==
    CASE trend = "nc" -> 0
      [] trend = "c" -> 1
      [] trend = "ct" -> 2
      [] trend = "ctt" -> 3

\* the deterministic regressors of the r-th row of the design matrix
trend_terms(trend, r) == SubSeq(<<Num(1), Num(r), Num(r * r)>>, 1, get_trendorder(trend))

RECURSIVE lagged(_, _, _)
\* y[t-1], ..., y[t-lags] side by side (t counts the rows of y from 1)
lagged(y, t, lags) ==
    IF lags = 0 THEN <<>> ELSE y[t - 1] \o lagged(y, t - 1, lags - 1)

\* util.get_var_endog: one row per observation lags..nobs-1, holding the
\* trend terms and then the lags 1..lags of y
get_var_endog(y0, lags, trend) ==
    The({[r \in 1..(Len(y) - lags) |-> trend_terms(trend, r) \o lagged(y, r + lags, lags)] :
         y \in {y0}})

\* VARResults.__init__(y, ys_lagged, params, sigma_u, lag_order), with the
\* default trendorder=1; rest is self.params[1:]
VARResults(y, neqs, ys_lagged, params0, sigma_u, lag_order) ==
    The({\* reshape((lag_order, neqs, neqs))
         IF Len(rest) * neqs # lag_order * neqs * neqs THEN Raise("ValueError")
         \* intercept = self.params[0]
         ELSE IF params = <<>> THEN Raise("IndexError")
         ELSE Ok([cls |-> "VARResults",
                  y |-> y,
                  ys_lagged |-> ys_lagged,
                  totobs |-> Len(y),
                  nobs |-> Len(y) - lag_order,
                  trendorder |-> 1,
                  params |-> params,
                  p |-> lag_order,
                  neqs |-> neqs,
                  \* reshaped.swapaxes(1, 2)
                  coefs |-> Tensor(neqs, [l \in 1..lag_order |->
                               [i \in 1..neqs |-> [j \in 1..neqs |->
                                   rest[(l - 1) * neqs + j][i]]]]),
                  intercept |-> params[1],
                  sigma_u |-> sigma_u]) :
         params \in {params0}, rest \in {SubSeq(params0, 2, Len(params0))}})

\* the rows lags.. of y
y_sample(y, lags) == SubSeq(y, lags + 1, Len(y))

\* resid = y_sample - np.dot(z, params)
ols_resid(y, z, params0) ==
    The({IF params = <<>> THEN y ELSE MatSub(y, Dot(z, params)) : params \in {params0}})

\* omega = sse / df_resid with sse = np.dot(resid.T, resid)
ols_omega(resid0, df_resid) ==
    The({MatDivScalar(Dot(Transpose(resid), resid), Num(df_resid)) : resid \in {resid0}})

\* VAR._estimate_var(lags, trend); lags is None or Some(n)
_estimate_var(self, lags0, trend) ==
    \* self.neqs * lags with lags = None
    IF lags0 = None THEN Raise("TypeError")
    \* util.get_var_endog has no row to build
    ELSE IF lags0[1] >= self.nobs THEN Raise("ValueError")
    ELSE The({The({VARResults(self.y, self.neqs, z, params,
                              ols_omega(ols_resid(y_sample(self.y, lags0[1]), z, params),
                                        (Len(self.y) - lags0[1])
                                        - (self.neqs * lags0[1] + get_trendorder(trend))),
                              lags0[1]) :
                   params \in {lstsq(z, y_sample(self.y, lags0[1]))}}) :
              z \in {get_var_endog(self.y, lags0[1], trend)}})

(***************************************************************************)
(* class VARResults                                                        *)
(***************************************************************************)
df_model(self) == self.neqs * self.p + self.trendorder

df_resid(self) == self.nobs - df_model(self)

sigma_u_mle(self) ==
    MatDivScalar(MatScale(Num(df_resid(self)), self.sigma_u), Num(self.nobs))

_zz(self) == The({Dot(Transpose(z), z) : z \in {self.ys_lagged}})

\* cov_params: np.kron(L.inv(np.dot(z.T, z)), self.sigma_u)
cov_params(self) ==
    The({IF ~inv.ok THEN inv ELSE Ok(Kron(inv.val, self.sigma_u)) : inv \in {L_inv(_zz(self))}})

\* util.get_logdet: the log of the determinant
get_logdet(m) == Log(Det(m))

ICNames == {"aic", "bic", "hqic", "fpe"}

\* sorted(selections): the keys of the dict of selected orders, in order
sorted_names == <<"aic", "bic", "fpe", "hqic">>

\* free_params of info_criteria
free_params(self) == self.p * self.neqs * self.neqs + self.neqs * self.trendorder

\* info_criteria
info_criteria(self) ==
    \* (nobs + self.df_model) / self.df_resid on Python integers
    IF df_resid(self) = 0 THEN Raise("ZeroDivisionError")
    ELSE Ok(The({[aic |-> RAdd(ld, RMul(Frac(2, self.nobs), Num(free_params(self)))),
                  bic |-> RAdd(ld, RMul(RDiv(Log(Num(self.nobs)), Num(self.nobs)),
                                        Num(free_params(self)))),
                  hqic |-> RAdd(ld, RMul(RDiv(RMul(Num(2), Log(Log(Num(self.nobs)))),
                                              Num(self.nobs)),
                                         Num(free_params(self)))),
                  fpe |-> RMul(RPow(Frac(self.nobs + df_model(self), df_resid(self)),
                                    self.neqs),
                               ExpLog(Det(sigma_u_mle(self))))] :
                 ld \in {get_logdet(sigma_u_mle(self))}}))

(***************************************************************************)
(* Order selection and fit                                                 *)
(***************************************************************************)
\* int(round(12 * (nobs / 100.) ** (1 / 4.))): the m with
\* (2m - 1) / 24 <= (nobs / 100) ^ (1/4) < (2m + 1) / 24
default_maxlags(nobs) ==
    CHOOSE m \in 0..40 :
        /\ m = 0 \/ (2 * m - 1) * (2 * m - 1) * (2 * m - 1) * (2 * m - 1) * 100 <= 331776 * nobs
        /\ 331776 * nobs < (2 * m + 1) * (2 * m + 1) * (2 * m + 1) * (2 * m + 1) * 100

\* the last place of the least value, counted from 0
argmin_last(v0) ==
    The({(CHOOSE i \in 1..Len(v) :
              /\ \A j \in 1..Len(v) : RLeq(v[i], v[j])
              /\ \A j \in (i + 1)..Len(v) : RLt(v[i], v[j])) - 1 :
         v \in {v0}})

\* np.argmin of a sequence of floats, counted from 0: the first nan if there
\* is one, else the first place of the least value
argmin(v0) ==
    The({IF \E i \in 1..Len(v) : IsNaN(v[i])
         THEN (CHOOSE i \in 1..Len(v) :
                   IsNaN(v[i]) /\ \A j \in 1..(i - 1) : ~IsNaN(v[j])) - 1
         ELSE (CHOOSE i \in 1..Len(v) :
                   /\ \A j \in 1..Len(v) : RLeq(v[i], v[j])
                   /\ \A j \in 1..(i - 1) : RLt(v[i], v[j])) - 1 :
         v \in {v0}})

\* result.info_criteria of an estimation outcome
criteria_of(result0) ==
    The({IF result.ok THEN info_criteria(result.val) ELSE result : result \in {result0}})

\* the body of select_order's loop for the lag order p: result.info_criteria
\* of self._estimate_var(p)
candidate(self, p) == criteria_of(_estimate_var(self, Some(p), "c"))

\* the lag orders select_order's loop runs over
candidates(maxlags) == 0..maxlags

\* the maxlags select_order works with; maxlags is None or Some(n)
maxlags_of(self, maxlags) ==
    IF maxlags = None THEN default_maxlags(self.nobs) ELSE maxlags[1]

\* the outcomes of the loop's passes, by lag order
loop_results(self, maxlags) ==
    The({[p \in ps |-> candidate(self, p)] : ps \in {candidates(maxlags)}})

\* the passes that raise
failed_of(results) == {p \in DOMAIN results : ~results[p].ok}

\* ics[ic]: the values of the criterion ic by lag order, ascending from 0
ics(results, ic) ==
    [n \in 1..Cardinality(DOMAIN results) |->
        CASE ic = "aic" -> results[n - 1].val.aic
          [] ic = "bic" -> results[n - 1].val.bic
          [] ic = "hqic" -> results[n - 1].val.hqic
          [] ic = "fpe" -> results[n - 1].val.fpe]

\* select_order once its loop has stored results[p], the criteria of lag
\* order p: the first pass that raises ends the call
select_from(results0) ==
    The({The({IF failed # {}
              THEN results[CHOOSE p \in failed : \A q \in failed : p <= q]
              ELSE Ok([aic |-> argmin(ics(results, "aic")),
                       bic |-> argmin(ics(results, "bic")),
                       hqic |-> argmin(ics(results, "hqic")),
                       fpe |-> argmin(ics(results, "fpe"))]) :
              failed \in {failed_of(results)}}) :
         results \in {results0}})

\* the calls of _estimate_var that select_order makes, in order, and the
\* table it prints when verbose
events_from(results0, verbose) ==
    The({The({[i \in 1..(IF failed = {} THEN Cardinality(DOMAIN results)
                         ELSE (CHOOSE p \in failed : \A q \in failed : p <= q) + 1) |->
                  <<"_estimate_var", i - 1>>]
              \o (IF failed = {} /\ verbose THEN <<<<"print_ic_table", 0>>>> ELSE <<>>) :
              failed \in {failed_of(results)}}) :
         results \in {results0}})

\* select_order(maxlags); maxlags is None or Some(n)
select_order(self, maxlags) ==
    select_from(loop_results(self, maxlags_of(self, maxlags)))

select_order_events(self, maxlags, verbose) ==
    events_from(loop_results(self, maxlags_of(self, maxlags)), verbose)

\* selections[ic] for a dict selections of selected orders
selected(selections, ic) ==
    CASE ic = "aic" -> selections.aic
      [] ic = "bic" -> selections.bic
      [] ic = "hqic" -> selections.hqic
      [] ic = "fpe" -> selections.fpe

\* fit once select_order has returned selections
fit_with(self, selections0, ic, trend) ==
    The({IF ~selections.ok THEN selections
         ELSE IF ic \notin ICNames
         THEN RaiseMsg("Exception", "%s not recognized, must be among %s",
                       <<<<ic>>, sorted_names>>)
         ELSE _estimate_var(self, Some(selected(selections.val, ic)), trend) :
         selections \in {selections0}})

\* fit(maxlags, ic=ic, trend=trend); ic is "None" or a name
fit(self, maxlags, ic, trend) ==
    IF ic # "None" THEN fit_with(self, select_order(self, maxlags), ic, trend)
    ELSE _estimate_var(self, maxlags, trend)

\* the calls fit makes once the loop of select_order has run; verbose is
\* False
fit_events_with(results0, ic) ==
    The({The({events_from(results, FALSE)
              \o (IF selections.ok /\ ic \in ICNames
                  THEN <<<<"_estimate_var", selected(selections.val, ic)>>>>
                  ELSE <<>>) :
              selections \in {select_from(results)}}) :
         results \in {results0}})

\* the calls of _estimate_var that fit makes, in order
fit_events(self, maxlags, ic, trend) ==
    IF ic # "None"
    THEN fit_events_with(loop_results(self, maxlags_of(self, maxlags)), ic)
    ELSE <<<<"_estimate_var", IF maxlags = None THEN -1 ELSE maxlags[1]>>>>

(***************************************************************************)
(* class VARProcess, and the forecast methods of VARResults                *)
(***************************************************************************)
\* VARProcess.__init__(coefs, intercept, sigma_u)
VARProcess(coefs, intercept, sigma_u) ==
    [cls |-> "VARProcess",
     p |-> Len(coefs.a),
     neqs |-> coefs.k,
     coefs |-> coefs,
     intercept |-> intercept,
     sigma_u |-> sigma_u]

\* VARProcess.mse(steps)
mse(self, steps) == forecast_cov(ma_rep(self.coefs, steps), self.sigma_u, steps)

\* VARResults._bmat_forc_cov: upper, self.params.T and lower stacked
_bmat_forc_cov(self) ==
    The({[i \in 1..df_model(self) |-> [j \in 1..df_model(self) |->
             IF i = 1 THEN (IF j = 1 THEN Num(1) ELSE Num(0))
             ELSE IF i <= 1 + self.neqs THEN paramsT[i - 1][j]
             ELSE IF j = i - self.neqs THEN Num(1) ELSE Num(0)]] :
         paramsT \in {Transpose(self.params)}})

RECURSIVE matrix_power(_, _)
\* np.linalg.matrix_power(B, i)
matrix_power(B0, i) ==
    The({IF i = 0 THEN Eye(NRows(B)) ELSE Dot(matrix_power(B, i - 1), B) : B \in {B0}})

\* the arguments of the calls of bpow at step h of _omega_forc_cov, in order:
\* h - 1 - i and then h - 1 - j for each i and j in range(h)
bpow_requests_at(h) ==
    [n \in 1..(2 * h * h) |->
        h - 1 - (IF (n - 1) % 2 = 0 THEN ((n - 1) \div 2) \div h
                 ELSE ((n - 1) \div 2) % h)]

RECURSIVE bpow_requests(_)
\* the arguments of the calls of bpow over the steps 2..steps
bpow_requests(steps) ==
    IF steps <= 1 THEN <<>> ELSE bpow_requests(steps - 1) \o bpow_requests_at(steps)

RECURSIVE bpow_run(_, _, _)
\* the dict _B of bpow, and the arguments matrix_power was called with,
\* after the first n calls of bpow
bpow_run(B0, reqs0, n) ==
    IF n = 0 THEN [_B |-> <<>>, calls |-> <<>>]
    ELSE The({IF reqs[n] \in DOMAIN prev._B THEN prev
              ELSE [_B |-> [i \in (DOMAIN prev._B) \cup {reqs[n]} |->
                              IF i = reqs[n] THEN matrix_power(B, i) ELSE prev._B[i]],
                    calls |-> Append(prev.calls, reqs[n])] :
              B \in {B0}, reqs \in {reqs0}, prev \in {bpow_run(B0, reqs0, n - 1)}})

\* bpow over one call of _omega_forc_cov(steps)
bpow_of(B, steps) ==
    The({bpow_run(B, reqs, Len(reqs)) : reqs \in {bpow_requests(steps)}})

\* what bpow(i - 1) returned, for i in 1..steps
bpow_table(B, steps) ==
    The({[i \in 1..steps |-> IF (i - 1) \in DOMAIN run._B THEN run._B[i - 1] ELSE <<>>] :
         run \in {bpow_of(B, steps)}})

\* the term for (i, j) with Bi taken as it is, not transposed
omega_term_plain(Bi0, Bj0, G0, Ginv0, phi_i, phi_j, sig_u) ==
    The({MatScale(Trace(Dot(Dot3(Bi, Ginv, Bj), G)),
                  Dot3(phi_i, sig_u, Transpose(phi_j))) :
         Bi \in {Bi0}, Bj \in {Bj0}, G \in {G0}, Ginv \in {Ginv0}})

\* the term of omegas[h-1] for the pair (i, j) of _omega_forc_cov's loops
omega_term(Bi0, Bj0, G0, Ginv0, phi_i, phi_j, sig_u) ==
    The({MatScale(Trace(Dot(Dot3(Transpose(Bi), Ginv, Bj), G)),
                  Dot3(phi_i, sig_u, Transpose(phi_j))) :
         Bi \in {Bi0}, Bj \in {Bj0}, G \in {G0}, Ginv \in {Ginv0}})

\* omegas[h-1] of _omega_forc_cov, given the powers bpow[0..h-1] of B
omega_at(self, h, G0, Ginv0, bpow0, phis0) ==
    The({IF h = 1 THEN MatScale(Num(df_model(self)), self.sigma_u)
         ELSE MatSum([n \in 1..(h * h) |->
                         omega_term(bpow[h - ((n - 1) \div h)],
                                    bpow[h - ((n - 1) % h)],
                                    G, Ginv,
                                    phis[((n - 1) \div h) + 1],
                                    phis[((n - 1) % h) + 1],
                                    self.sigma_u)],
                     self.neqs, self.neqs) :
         G \in {G0}, Ginv \in {Ginv0}, bpow \in {bpow0}, phis \in {phis0}})

\* the outcome of np.eye(lower_dim) of _bmat_forc_cov
bmat_outcome(self) ==
    IF self.p = 0 THEN Raise("ValueError") ELSE Ok(_bmat_forc_cov(self))

\* VARResults._omega_forc_cov(steps), given Ginv = L.inv(G) and B
omegas_with(self, steps, Ginv0, B0) ==
    The({IF ~Ginv.ok THEN Ginv
         ELSE IF ~B.ok THEN B
         ELSE Ok(The({[h \in 1..steps |->
                          omega_at(self, h, _zz(self), Ginv.val, bpow, phis)] :
                      bpow \in {bpow_table(B.val, steps)},
                      phis \in {ma_rep(self.coefs, steps)}})) :
         Ginv \in {Ginv0}, B \in {B0}})

_omega_forc_cov(self, steps) ==
    omegas_with(self, steps, L_inv(_zz(self)), bmat_outcome(self))

\* VARResults.forecast_cov(steps): mse + omegas / self.nobs
VARResults_forecast_cov(self, steps) ==
    The({IF ~omegas.ok THEN omegas
         ELSE Ok([h \in 1..steps |->
                     MatAdd(covs[h], MatDivScalar(omegas.val[h], Num(self.nobs)))]) :
         covs \in {mse(self, steps)}, omegas \in {_omega_forc_cov(self, steps)}})

\* forecast_cov = mse for every object, the override of VARResults ignored
mse_only(self, steps) == Ok(mse(self, steps))

\* self.forecast_cov(steps): VARProcess has forecast_cov = mse, and
\* VARResults overrides it
self_forecast_cov(self, steps) ==
    IF self.cls = "VARResults" THEN VARResults_forecast_cov(self, steps)
    ELSE Ok(mse(self, steps))

\* VARProcess._forecast_vars(steps): the diagonal of each covariance
_forecast_vars(self, steps) ==
    The({IF ~covs.ok THEN covs ELSE Ok([h \in 1..steps |-> Diag(covs.val[h])]) :
         covs \in {self_forecast_cov(self, steps)}})

RECURSIVE ISqrtIn(_, _, _)
\* the r in lo..hi-1 with r^2 <= m < (r+1)^2, given lo^2 <= m < hi^2
ISqrtIn(m, lo, hi) ==
    IF hi - lo <= 1 THEN lo
    ELSE IF ((lo + hi) \div 2) * ((lo + hi) \div 2) <= m
    THEN ISqrtIn(m, (lo + hi) \div 2, hi)
    ELSE ISqrtIn(m, lo, (lo + hi) \div 2)

\* np.sqrt of a float, to two decimals
Sqrt(a0) ==
    The({IF IsNaN(a) THEN NaN
         ELSE IF a[2] = 0 THEN (IF a[1] > 0 THEN a ELSE NaN)
         ELSE IF a[1] < 0 THEN NaN
         ELSE Frac(ISqrtIn((a[1] \div a[2]) * 10000 + ((a[1] % a[2]) * 10000) \div a[2],
                           0, 46340), 100) :
         a \in {a0}})

\* util.norm_signif_level(alpha): the 1 - alpha / 2 quantile of the standard
\* normal distribution, to two decimals
norm_signif_level(alpha) ==
    CASE alpha = Frac(1, 100) -> Frac(258, 100)
      [] alpha = Frac(5, 100) -> Frac(196, 100)
      [] alpha = Frac(10, 100) -> Frac(164, 100)

\* the triple forecast_interval returns, given its forecast and variances
interval_of(point0, vars0, q0) ==
    The({IF ~point.ok THEN point
         ELSE IF ~fvars.ok THEN fvars
         ELSE Ok(<<point.val,
                   [h \in 1..Len(point.val) |-> [i \in 1..Len(point.val[h]) |->
                       RSub(point.val[h][i], RMul(q, Sqrt(fvars.val[h][i])))]],
                   [h \in 1..Len(point.val) |-> [i \in 1..Len(point.val[h]) |->
                       RAdd(point.val[h][i], RMul(q, Sqrt(fvars.val[h][i])))]]>>) :
         point \in {point0}, fvars \in {vars0}, q \in {q0}})

\* VARProcess.forecast_interval(y, steps, alpha)
forecast_interval(self, y, steps, alpha) ==
    IF ~(RLt(Num(0), alpha) /\ RLt(alpha, Num(1))) THEN Raise("AssertionError")
    ELSE interval_of(forecast(y, self.coefs, self.intercept, steps),
                     _forecast_vars(self, steps),
                     norm_signif_level(alpha))

(***************************************************************************)
(* VARResults.test_causality                                               *)
(***************************************************************************)
\* offsets that count the tested equation in steps of k and the variables in
\* steps of 1: the entries of vec(params), not of vec(params.T)
offsets_by_equation(k, p, eq_index, vinds) ==
    [n \in 1..(Len(vinds) * p) |->
        k + k * k * ((n - 1) \div Len(vinds)) + vinds[((n - 1) % Len(vinds)) + 1]
          + k * eq_index]

\* offsets of test_causality, counted from 0: one for each lag j and each of
\* the variables
offsets(k, p, eq_index, vinds) ==
    [n \in 1..(Len(vinds) * p) |->
        k + k * k * ((n - 1) \div Len(vinds)) + k * vinds[((n - 1) % Len(vinds)) + 1]
          + eq_index]

\* the restriction matrix C, of N rows
restriction(k, p, offs0) ==
    The({[n \in 1..Len(offs) |-> [c \in 1..(k * k * p + k) |->
             IF c = offs[n] + 1 THEN Num(1) ELSE Num(0)]] :
         offs \in {offs0}})

\* the statistic, degrees of freedom, critical value and conclusion of
\* test_causality, from the Wald statistic lam_wald
decision(self, N, lam_wald0, kind, crit_value) ==
    The({The({[statistic |-> statistic,
               crit_value |-> crit_value,
               df |-> IF kind = "wald" THEN <<N>> ELSE <<N, self.neqs * df_resid(self)>>,
               conclusion |-> IF RLt(statistic, crit_value) THEN "fail to reject"
                              ELSE "reject"] :
              statistic \in {IF kind = "wald" THEN lam_wald
                             ELSE RDiv(lam_wald, Num(N))}}) :
         lam_wald \in {lam_wald0}})

\* np.dot(Cb, np.dot(middle, Cb))
quad_form(Cb0, middle0) ==
    The({RSum([i \in 1..Len(Cb) |-> RMul(Cb[i], DotVec(middle, Cb)[i])]) :
         Cb \in {Cb0}, middle \in {middle0}})

\* test_causality from the restriction matrix C on
causality_with(self, N, C0, cov0, kind, crit_value) ==
    The({IF ~cov.ok THEN cov
         ELSE The({IF ~middle.ok THEN middle
                   ELSE IF kind \notin {"wald", "f"}
                   THEN RaiseMsg("Exception", "kind %s not recognized", <<<<kind>>>>)
                   ELSE Ok(decision(self, N,
                                    quad_form(DotVec(C, vec(Transpose(self.params))),
                                              middle.val),
                                    kind, crit_value)) :
                   middle \in {L_inv(Dot3(C, cov.val, Transpose(C)))}}) :
         C \in {C0}, cov \in {cov0}})

\* test_causality(equation, variables, kind, signif); equation and variables
\* are indices, and crit_value is dist.ppf(1 - signif), which takes every
\* positive value as signif runs over (0, 1)
test_causality(self, equation, variables, kind, crit_value) ==
    \* np.concatenate of an empty list
    IF self.p = 0 THEN Raise("ValueError")
    ELSE causality_with(self, Len(variables) * self.p,
                        restriction(self.neqs, self.p,
                                    offsets(self.neqs, self.p, equation, variables)),
                        cov_params(self), kind, crit_value)

(***************************************************************************)
(* Estimation: a VAR model over a drawn series, and one call on it         *)
(***************************************************************************)
MaxT == 4

MaxLags == 2

\* the observations a series is drawn from, by the number of variables
Obs(k) ==
    IF k = 1 THEN {<<Num(1)>>, <<Num(2)>>}
    ELSE {<<Num(0), Num(1)>>, <<Num(1), Num(0)>>}

SeriesOf(k) == UNION {[1..T -> Obs(k)] : T \in 1..MaxT}

LongT == 8

\* a long series of one variable, alternating between 1 and 2
LongSeries == [t \in 1..LongT |-> <<Num(1 + (t % 2))>>]

Trends == {"nc", "c", "ct", "ctt"}

Lags == {None} \cup {Some(n) : n \in 0..MaxLags}

InitEst ==
    /\ \/ \E k \in {1, 2} : \E y \in SeriesOf(k) : model = VAR(y, k)
       \/ model = VAR(LongSeries, 1)
    /\ obj = "none"
    /\ call = [op |-> "init"]
    /\ ret = Ok("none")
    /\ events = <<>>

EstimateVar(lags, trend) ==
    /\ call.op = "init"
    /\ call' = [op |-> "_estimate_var", lags |-> lags, trend |-> trend]
    /\ ret' = _estimate_var(model, lags, trend)
    /\ events' = <<<<"_estimate_var", IF lags = None THEN -1 ELSE lags[1]>>>>
    /\ UNCHANGED <<model, obj>>

SelectOrder(maxlags, verbose) ==
    /\ call.op = "init"
    /\ call' = [op |-> "select_order", maxlags |-> maxlags, verbose |-> verbose]
    /\ ret' = select_order(model, maxlags)
    /\ events' = select_order_events(model, maxlags, verbose)
    /\ UNCHANGED <<model, obj>>

Fit(maxlags, ic, trend) ==
    /\ call.op = "init"
    /\ call' = [op |-> "fit", maxlags |-> maxlags, ic |-> ic, trend |-> trend]
    /\ ret' = fit(model, maxlags, ic, trend)
    /\ events' = fit_events(model, maxlags, ic, trend)
    /\ UNCHANGED <<model, obj>>

NextEst ==
    \/ \E lags \in Lags : \E trend \in Trends : EstimateVar(lags, trend)
    \/ \E maxlags \in Lags : \E verbose \in BOOLEAN : SelectOrder(maxlags, verbose)
    \/ \E maxlags \in Lags : \E ic \in ICNames \cup {"None", "sic"} :
           \E trend \in {"c", "ct"} : Fit(maxlags, ic, trend)

SpecEst == InitEst /\ [][NextEst]_vars

(***************************************************************************)
(* Properties of estimation, order selection and fit                      *)
(***************************************************************************)
\* the lag order of the call in progress, and the order of its trend
CallLags == call.lags[1]

CallTrendOrder == get_trendorder(call.trend)

\* (T - p) - (k p + d) of the call of _estimate_var in progress
CallDfResid ==
    (model.nobs - CallLags) - (model.neqs * CallLags + CallTrendOrder)

\* rows a..b of the parameter matrix B, transposed
BlockT(B, a, b) == Transpose(SubSeq(B, a, b))

\* the shape C1 gives a result of lag order p and trend order d over k
\* variables
HasShape(res, k, p, d) ==
    /\ Len(res.params) = k * p + d
    /\ Len(res.coefs.a) = p
    /\ \A i \in 1..p : res.coefs.a[i] = BlockT(res.params, d + (i - 1) * k + 1, d + i * k)
    /\ df_model(res) = k * p + d

\* C1: for each of the four trends (order d = 0..3), each lag order p >= 0
\* and k >= 1 with enough observations, _estimate_var returns a result whose
\* params has k p + d rows, whose coefs[i] is the transpose of the rows
\* d + (i-1) k + 1 .. d + i k of params, and whose df_model is k p + d.
C1_EstimateShape ==
    (call.op = "_estimate_var" /\ call.lags # None /\ CallDfResid > 0)
    => /\ ret.ok
       /\ HasShape(ret.val, model.neqs, CallLags, CallTrendOrder)

\* C2: _estimate_var raises whenever (T - p) - (k p + d) <= 0; it returns no
\* result built from a zero or negative df_resid.
C2_EstimateFailsWithoutDf ==
    (call.op = "_estimate_var" /\ call.lags # None /\ CallDfResid <= 0) => ~ret.ok

\* the maxlags the call of select_order or fit in progress works with
CallMaxlags == maxlags_of(model, call.maxlags)

\* sel is the first place, counted from 0, of the least of the values v
FirstLeast(v, sel) ==
    /\ sel \in 0..(Len(v) - 1)
    /\ \A q \in 1..Len(v) : RLeq(v[sel + 1], v[q])
    /\ \A q \in 1..sel : RLt(v[sel + 1], v[q])

\* C8: select_order estimates one model for each p = 0..maxlags in ascending
\* order and returns, for each of aic, bic, hqic and fpe, the first place of
\* the least value of that criterion over the candidates: no candidate has a
\* smaller value, every earlier one has a larger value, and the returned lag
\* is in 0..maxlags.
C8_SelectOrderArgmin ==
    (call.op = "select_order" /\ ret.ok)
    => \A results \in {loop_results(model, CallMaxlags)} :
           /\ DOMAIN results = 0..CallMaxlags
           /\ \A ic \in ICNames : FirstLeast(ics(results, ic), selected(ret.val, ic))
           /\ SubSeq(events, 1, CallMaxlags + 1)
                  = [n \in 1..(CallMaxlags + 1) |-> <<"_estimate_var", n - 1>>]

\* a returned selection that breaks a tie: lag orders 1 and 2 share the least
\* aic, lag order 0 has a larger one, and 1 is selected
C8_Witness ==
    /\ call.op = "select_order"
    /\ call.maxlags = Some(2)
    /\ ret.ok
    /\ ret.val.aic = 1
    /\ \A v \in {ics(loop_results(model, 2), "aic")} : v[2] = v[3] /\ RLt(v[2], v[1])

\* the lag order fit is to estimate with: maxlags (by default
\* default_maxlags) when ic is None, the order selected for ic otherwise
FitOrder(selections) ==
    IF call.ic = "None" THEN CallMaxlags ELSE selected(selections.val, call.ic)

\* C9: fit estimates the model of lag order maxlags when ic is None and of
\* the order selected for ic, a value in 0..maxlags, otherwise; a maxlags
\* that is not given is default_maxlags(nobs) in both cases, so that fit
\* with nothing given returns a result when the default order can be
\* estimated.
C9_FitLagOrder ==
    (call.op = "fit" /\ call.ic \in ICNames \cup {"None"})
    => \A selections \in {select_order(model, Some(CallMaxlags))} :
           (call.ic # "None" => selections.ok)
           => /\ ret = _estimate_var(model, Some(FitOrder(selections)), call.trend)
              /\ FitOrder(selections) \in 0..CallMaxlags

(***************************************************************************)
(* Processes and results: an object, and one call on it                    *)
(***************************************************************************)
MaxP == 2

MaxN == 3

MaxNLags == 2

MaxSteps == 2

\* the coefficients of the processes of one variable
CoefVals == {Num(-1), Frac(-1, 2), Frac(1, 2), Num(1), Frac(3, 2)}

\* the coefficient matrices of the processes of k variables
Mats(k) ==
    IF k = 1 THEN {<<<<a>>>> : a \in CoefVals}
    ELSE {<<<<Frac(1, 2), Num(0)>>, <<Num(0), Frac(1, 2)>>>>,
          <<<<Num(0), Num(-1)>>, <<Num(1), Num(0)>>>>,
          <<<<Num(1), Num(1)>>, <<Num(0), Num(1)>>>>,
          <<<<Frac(1, 2), Frac(1, 2)>>, <<Num(0), Frac(3, 2)>>>>}

Intercepts(k) == IF k = 1 THEN {<<Num(0)>>, <<Num(1)>>} ELSE {<<Num(1), Num(0)>>}

Processes ==
    UNION {{VARProcess(Tensor(k, a), c, Eye(k)) :
               a \in UNION {[1..p -> Mats(k)] : p \in 0..MaxP}, c \in Intercepts(k)} :
           k \in {1, 2}}

\* two series of two variables whose design matrix has full rank
Series2 ==
    {<<<<Num(0), Num(1)>>, <<Num(1), Num(0)>>, <<Num(1), Num(1)>>, <<Num(0), Num(0)>>,
       <<Num(1), Num(0)>>>>,
     <<<<Num(1), Num(1)>>, <<Num(0), Num(1)>>, <<Num(1), Num(0)>>, <<Num(0), Num(0)>>,
       <<Num(0), Num(1)>>, <<Num(1), Num(1)>>>>}

\* the results of estimating a series with a constant
Estimates ==
    {_estimate_var(VAR(y, 1), Some(p), "c") : y \in SeriesOf(1), p \in 0..1}
    \cup {_estimate_var(VAR(y, 2), Some(p), "c") : y \in Series2, p \in 0..1}

Results == {r.val : r \in {e \in Estimates : e.ok}}

\* the histories a forecast starts from, of up to MaxP rows
Histories(k) ==
    UNION {[1..n -> IF k = 1 THEN {<<Num(1)>>, <<Num(2)>>}
                    ELSE {<<Num(1), Num(0)>>, <<Num(1), Num(2)>>}] : n \in 0..MaxP}

Alphas == {Frac(5, 100), Frac(10, 100)}

\* critical values dist.ppf(1 - signif) of the levels signif drawn
CritValues == {Frac(1, 3), Num(1), Num(3)}

InitObj ==
    /\ obj \in Processes \cup Results
    /\ model = "none"
    /\ call = [op |-> "init"]
    /\ ret = Ok("none")
    /\ events = <<>>

MaRep(maxn) ==
    /\ call.op = "init"
    /\ call' = [op |-> "ma_rep", maxn |-> maxn]
    /\ ret' = Ok(ma_rep(obj.coefs, maxn))
    /\ UNCHANGED <<model, obj, events>>

IsStable ==
    /\ call.op = "init"
    /\ obj.p >= 1
    /\ obj.neqs * obj.p <= 2
    /\ call' = [op |-> "is_stable"]
    /\ ret' = Ok(is_stable(obj.coefs))
    /\ UNCHANGED <<model, obj, events>>

Acf(nlags) ==
    /\ call.op = "init"
    /\ obj.p >= 1
    /\ obj.neqs * obj.p <= 2
    /\ call' = [op |-> "acf", nlags |-> nlags]
    /\ ret' = var_acf(obj.coefs, obj.sigma_u, nlags)
    /\ UNCHANGED <<model, obj, events>>

Forecast(y, steps) ==
    /\ call.op = "init"
    /\ call' = [op |-> "forecast", y |-> y, steps |-> steps]
    /\ ret' = forecast(y, obj.coefs, obj.intercept, steps)
    /\ UNCHANGED <<model, obj, events>>

ForecastInterval(y, steps, alpha) ==
    /\ call.op = "init"
    /\ call' = [op |-> "forecast_interval", y |-> y, steps |-> steps, alpha |-> alpha]
    /\ ret' = forecast_interval(obj, y, steps, alpha)
    /\ UNCHANGED <<model, obj, events>>

TestCausality(equation, variables, kind, crit_value, verbose) ==
    /\ call.op = "init"
    /\ obj.cls = "VARResults"
    /\ call' = [op |-> "test_causality", equation |-> equation, variables |-> variables,
                kind |-> kind, crit_value |-> crit_value, verbose |-> verbose]
    /\ ret' = test_causality(obj, equation, variables, kind, crit_value)
    /\ events' = IF ret'.ok /\ verbose THEN <<<<"print", "causality_summary">>>> ELSE <<>>
    /\ UNCHANGED <<model, obj>>

NextObj ==
    \/ \E maxn \in 0..MaxN : MaRep(maxn)
    \/ IsStable
    \/ \E nlags \in {None} \cup {Some(n) : n \in 0..MaxNLags} : Acf(nlags)
    \/ \E y \in Histories(obj.neqs) : \E steps \in 0..MaxN : Forecast(y, steps)
    \/ \E y \in Histories(obj.neqs) : \E steps \in 1..MaxSteps : \E alpha \in Alphas :
           ForecastInterval(y, steps, alpha)
    \/ \E equation \in 0..(obj.neqs - 1) :
           \E variables \in {<<v>> : v \in 0..(obj.neqs - 1)} :
               \E kind \in {"wald", "f", "lr"} : \E crit_value \in CritValues :
                   \E verbose \in BOOLEAN :
                       TestCausality(equation, variables, kind, crit_value, verbose)

SpecObj == InitObj /\ [][NextObj]_vars

(***************************************************************************)
(* Properties of processes and results                                    *)
(***************************************************************************)
\* x(h - i) of the forecast recursion: row h - i of the forecasts when
\* h - i > 0, else the observation h - i counted back from the last row of y
PriorRow(rows, y, h, i) == IF h - i > 0 THEN rows[h - i] ELSE y[Len(y) + (h - i)]

\* c + A_1 x(h-1) + ... + A_p x(h-p), component by component
RecursionRow(self, rows, y, h) ==
    [c \in 1..self.neqs |->
        RAdd(self.intercept[c],
             RSum([i \in 1..self.p |->
                      DotVec(self.coefs.a[i], PriorRow(rows, y, h, i))[c]]))]

\* C3: for every coefficient tensor A_1..A_p, intercept c, history y of at
\* least p rows and steps >= 1, forecast returns steps rows, row h being
\* c + sum over i = 1..p of A_i x(h-i); a = 0.5, c = 0, y = [2.0] and
\* steps = 3 give [1.0, 0.5, 0.25].
C3_ForecastRecursion ==
    (call.op = "forecast" /\ Len(call.y) >= obj.p /\ call.steps >= 1)
    => /\ ret.ok
       /\ Len(ret.val) = call.steps
       /\ \A h \in 1..call.steps : ret.val[h] = RecursionRow(obj, ret.val, call.y, h)
       /\ (/\ obj.coefs = Tensor(1, <<<<<<Frac(1, 2)>>>>>>)
           /\ obj.intercept = <<Num(0)>>
           /\ call.y = <<<<Num(2)>>>>
           /\ call.steps = 3)
          => ret.val = <<<<Num(1)>>, <<Frac(1, 2)>>, <<Frac(1, 4)>>>>

\* the half-widths z * sqrt(diag(covs[h])) of an interval
HalfWidths(covs, alpha) ==
    [h \in 1..Len(covs) |-> [i \in 1..Len(covs[h]) |->
        RMul(norm_signif_level(alpha), Sqrt(covs[h][i][i]))]]

\* ret is the triple (point, point - w, point + w) of the forecast of the
\* call in progress and the half-widths w
IsInterval(w) ==
    \A point \in {forecast(call.y, obj.coefs, obj.intercept, call.steps)} :
        /\ point.ok
        /\ ret.val = <<point.val,
                       [h \in 1..call.steps |-> [i \in 1..obj.neqs |->
                           RSub(point.val[h][i], w[h][i])]],
                       [h \in 1..call.steps |-> [i \in 1..obj.neqs |->
                           RAdd(point.val[h][i], w[h][i])]]>>

C6_AcfYuleWalker ==
    (call.op = "acf" /\ call.nlags # None /\ is_stable_strict(obj.coefs))
    => /\ ret.ok
       /\ Len(ret.val) = call.nlags[1] + 1
       /\ \A h \in 0..call.nlags[1] :
              IF h < obj.p
              THEN ret.val[h + 1] = _var_acf(obj.coefs, obj.sigma_u).val[h + 1]
              ELSE ret.val[h + 1] =
                       MatSum([j \in 1..obj.p |->
                                  Dot(obj.coefs.a[j], ret.val[h - j + 1])],
                              obj.neqs, obj.neqs)

\* the roots of x^2 - t x + d are in the closed unit disc
InClosedDisc(t, d) == RLeq(RAbs(d), Num(1)) /\ RLeq(RAbs(t), RAdd(Num(1), d))

\* every eigenvalue of the 1 x 1 or 2 x 2 matrix A has modulus <= 1
ModuliAtMostOne(A) ==
    IF NRows(A) = 1 THEN RLeq(RAbs(A[1][1]), Num(1))
    ELSE InClosedDisc(Trace(A), Det(A))

\* C7: is_stable returns true if and only if every eigenvalue of the
\* companion matrix has modulus <= 1: for one variable and one lag, 0.5
\* gives true, 1.5 false, and 1.0 and -1.0 true.
C7_IsStable ==
    call.op = "is_stable"
    => /\ ret.ok
       /\ ret.val = ModuliAtMostOne(comp_matrix(obj.coefs))
       /\ obj.coefs = Tensor(1, <<<<<<Frac(1, 2)>>>>>>) => ret.val = TRUE
       /\ obj.coefs = Tensor(1, <<<<<<Frac(3, 2)>>>>>>) => ret.val = FALSE
       /\ obj.coefs = Tensor(1, <<<<<<Num(1)>>>>>>) => ret.val = TRUE
       /\ obj.coefs = Tensor(1, <<<<<<Num(-1)>>>>>>) => ret.val = TRUE

\* a process of two variables with a pair of complex eigenvalues on the unit
\* circle, found stable
C7_Witness ==
    /\ call.op = "is_stable"
    /\ obj.coefs = Tensor(2, <<<<<<Num(0), Num(-1)>>, <<Num(1), Num(0)>>>>>>)
    /\ ret.val = TRUE

\* C10: in every result of test_causality the conclusion is 'reject' if and
\* only if the statistic is greater than the critical value; a statistic
\* equal to the critical value gives 'fail to reject'.
C10_CausalityDecision ==
    (call.op = "test_causality" /\ ret.ok)
    => /\ ret.val.conclusion \in {"reject", "fail to reject"}
       /\ ret.val.conclusion = "reject" <=> RLt(ret.val.crit_value, ret.val.statistic)

(***************************************************************************)
(* The restriction matrix of test_causality, on results of known           *)
(* parameters                                                              *)
(***************************************************************************)
MaxK == 3

\* parameters whose entries all differ: row r, column c holds 10 r + c
ParamsOf(k, p) == [r \in 1..(1 + k * p) |-> [c \in 1..k |-> Num(10 * r + c)]]

\* a series of nobs = 1 for the results of known parameters
FlatSeries(k, p) == [t \in 1..(p + 1) |-> [c \in 1..k |-> Num(t)]]

\* VARResults(y, ys_lagged, params, sigma_u, p) built from known parameters
KnownResult(k, p) ==
    VARResults(FlatSeries(k, p), k, get_var_endog(FlatSeries(k, p), p, "c"),
               ParamsOf(k, p), Eye(k), p).val

KnownResults == {KnownResult(k, p) : k \in 1..MaxK, p \in 1..MaxP}

\* the lists of up to k of the variables 0..k-1, repeats included
VariableLists(k) == UNION {[1..n -> 0..(k - 1)] : n \in 0..k}

InitRestr ==
    /\ obj \in KnownResults
    /\ model = "none"
    /\ call = [op |-> "init"]
    /\ ret = Ok("none")
    /\ events = <<>>

\* test_causality up to C[np.arange(N), offsets] = 1: N and C are locals of
\* the call
BuildRestriction(equation, variables) ==
    /\ call.op = "init"
    /\ call' = [op |-> "test_causality", equation |-> equation, variables |-> variables,
                N |-> Len(variables) * obj.p,
                C |-> restriction(obj.neqs, obj.p,
                                  offsets(obj.neqs, obj.p, equation, variables))]
    /\ UNCHANGED <<model, obj, ret, events>>

NextRestr ==
    \E equation \in 0..(obj.neqs - 1) : \E variables \in VariableLists(obj.neqs) :
        BuildRestriction(equation, variables)

SpecRestr == InitRestr /\ [][NextRestr]_vars

\* the positions of row holding a 1, counted from 1
Ones(row) == {c \in 1..Len(row) : row[c] = Num(1)}

Distinct(s) == \A a, b \in 1..Len(s) : a # b => s[a] # s[b]

\* C11: the restriction matrix C of test_causality has N = |V| p rows of
\* k^2 p + k entries, each row holding one 1 and zeros elsewhere; the row of
\* lag j and variable v selects the entry of vec(params.T) that is the
\* coefficient of variable v at lag j in the tested equation, never an
\* intercept, and distinct pairs of lag and variable select distinct entries.
C11_Restriction ==
    (call.op = "test_causality" /\ Distinct(call.variables))
    => \A C \in {call.C} : \A V \in {call.variables} : \A b \in {vec(Transpose(obj.params))} :
          /\ Len(C) = Len(V) * obj.p
          /\ call.N = Len(C)
          /\ \A n \in 1..Len(C) :
                /\ Len(C[n]) = obj.neqs * obj.neqs * obj.p + obj.neqs
                /\ Len(b) = Len(C[n])
                /\ Cardinality(Ones(C[n])) = 1
                /\ \A c \in 1..Len(C[n]) : C[n][c] \in {Num(0), Num(1)}
                /\ \A c \in Ones(C[n]) : c > obj.neqs
          /\ \A j \in 1..obj.p : \A i \in 1..Len(V) :
                \A c \in Ones(C[(j - 1) * Len(V) + i]) :
                    b[c] = obj.coefs.a[j][call.equation + 1][V[i] + 1]
          /\ \A n, m \in 1..Len(C) : n # m => Ones(C[n]) # Ones(C[m])

\* two variables tested at two lags in the second of three equations
C11_Witness ==
    /\ call.op = "test_causality"
    /\ obj.neqs = 3
    /\ obj.p = 2
    /\ call.equation = 1
    /\ call.variables = <<2, 0>>
    /\ Len(call.C) = 4
    /\ Ones(call.C[3]) = {3 + 9 + 6 + 1 + 1}

(***************************************************************************)
(* Forecast error variance decomposition                                   *)
(***************************************************************************)
RECURSIVE chol_entry(_, _, _)
\* entry (i, j), j <= i, of the lower-triangular factor of A, read from the
\* lower triangle of A
chol_entry(A, i, j) ==
    The({IF i = j THEN Sqrt(rest) ELSE RDiv(rest, chol_entry(A, j, j)) :
         rest \in {RSub(A[i][j],
                        RSum([m \in 1..(j - 1) |->
                                 RMul(chol_entry(A, i, m), chol_entry(A, j, m))]))}})

\* numpy.linalg.cholesky: the lower-triangular factor, or LinAlgError when A
\* is not positive definite
chol(A0) ==
    The({IF \E i \in 1..Len(A) : ~RLt(Num(0), chol_entry(A, i, i))
         THEN Raise("LinAlgError")
         ELSE Ok([i \in 1..Len(A) |-> [j \in 1..Len(A) |->
                     IF j <= i THEN chol_entry(A, i, j) ELSE Num(0)]]) :
         A \in {A0}})

\* VARProcess._chol_sigma_u
_chol_sigma_u(self) == chol(self.sigma_u)

\* VARProcess.orth_ma_rep(maxn, P); P is None or Some(matrix)
orth_ma_rep(self, maxn, P0) ==
    The({IF ~P.ok THEN P
         ELSE Ok([n \in 1..Len(ma_mats) |-> Dot(ma_mats[n], P.val)]) :
         P \in {IF P0 = None THEN _chol_sigma_u(self) ELSE Ok(P0[1])},
         ma_mats \in {ma_rep(self.coefs, maxn)}})

\* irf.IRAnalysis(model, P, periods), as far as FEVD reads it: the
\* orthogonalized impulse responses Phi_i P of periods 0..periods
IRAnalysis(model0, P, periods) ==
    The({IF ~orth.ok THEN orth ELSE Ok([orth_irfs |-> orth.val]) :
         orth \in {orth_ma_rep(model0, periods, P)}})

\* VARResults.irf(periods, var_decomp)
irf(self, periods, var_decomp) == IRAnalysis(self, var_decomp, periods)

\* the squared responses of step h alone
squares_at(orth_irfs0, periods) ==
    The({[h \in 1..periods |-> [i \in 1..Len(orth[h]) |-> [j \in 1..Len(orth[h][i]) |->
             RMul(orth[h][i][j], orth[h][i][j])]]] :
         orth \in {orth_irfs0}})

\* (self.orth_irfs[:periods] ** 2).cumsum(axis=0)
cum_squares(orth_irfs0, periods) ==
    The({[h \in 1..periods |-> [i \in 1..Len(orth[h]) |-> [j \in 1..Len(orth[h][i]) |->
             RSum([s \in 1..h |-> RMul(orth[s][i][j], orth[s][i][j])])]]] :
         orth \in {orth_irfs0}})

\* fevd[h] = (irfs[h].T / mse[h]).T for each h, then swapaxes(0, 1): equation
\* x period x component; mse holds the diagonals
decomp_of(irfs0, mse0, neqs, periods) ==
    The({[i \in 1..neqs |-> [h \in 1..periods |-> [j \in 1..neqs |->
             RDiv(irfs[h][i][j], covs[h][i][i])]]] :
         irfs \in {irfs0}, covs \in {mse0}})

\* FEVD.__init__(model, P, periods)
FEVD(model0, P, periods) ==
    The({IF ~irfobj.ok THEN irfobj
         ELSE Ok([periods |-> periods,
                  neqs |-> model0.neqs,
                  orth_irfs |-> irfobj.val.orth_irfs,
                  decomp |-> decomp_of(cum_squares(irfobj.val.orth_irfs, periods),
                                       mse(model0, periods), model0.neqs, periods)]) :
         irfobj \in {irf(model0, periods, P)}})

\* VARResults.fevd(periods, var_decomp)
fevd(self, periods, var_decomp) == FEVD(self, var_decomp, periods)

MaxPeriods == 2

\* noise covariances whose Cholesky factor is rational, and two that are
\* positive semidefinite with a zero on the diagonal
Sigmas(k) ==
    IF k = 1 THEN {<<<<Num(4)>>>>, <<<<Frac(1, 4)>>>>, <<<<Num(0)>>>>}
    ELSE {Eye(2),
          <<<<Num(4), Num(2)>>, <<Num(2), Num(2)>>>>,
          <<<<Num(1), Num(0)>>, <<Num(0), Num(0)>>>>}

\* the factors passed as var_decomp
Factors(k) ==
    IF k = 1 THEN {<<<<Num(2)>>>>, <<<<Num(-2)>>>>, <<<<Frac(1, 2)>>>>, <<<<Num(0)>>>>}
    ELSE {<<<<Num(0), Num(1)>>, <<Num(1), Num(0)>>>>,
          <<<<Frac(3, 5), Frac(4, 5)>>, <<Frac(4, 5), Frac(-3, 5)>>>>,
          <<<<Num(1), Num(-1)>>, <<Num(1), Num(1)>>>>,
          <<<<Num(1), Num(0)>>, <<Num(0), Num(0)>>>>}

\* VARResults(y, ys_lagged, params, sigma_u, 1) of the intercept and the one
\* coefficient matrix A
ResultOf(k, intercept, A, sigma_u) ==
    VARResults(FlatSeries(k, 1), k, get_var_endog(FlatSeries(k, 1), 1, "c"),
               <<intercept>> \o Transpose(A), sigma_u, 1).val

FevdResults ==
    UNION {{ResultOf(k, intercept, A, sigma_u) :
               intercept \in Intercepts(k), A \in Mats(k), sigma_u \in Sigmas(k)} :
           k \in 1..2}

InitFevd ==
    /\ obj \in FevdResults
    /\ model = "none"
    /\ call = [op |-> "init"]
    /\ ret = Ok("none")
    /\ events = <<>>

Fevd(periods, var_decomp) ==
    /\ call.op = "init"
    /\ call' = [op |-> "fevd", periods |-> periods, var_decomp |-> var_decomp]
    /\ ret' = fevd(obj, periods, var_decomp)
    /\ UNCHANGED <<model, obj, events>>

NextFevd ==
    \E periods \in 1..MaxPeriods :
        \E var_decomp \in {None} \cup {Some(P) : P \in Factors(obj.neqs)} :
            Fevd(periods, var_decomp)

SpecFevd == InitFevd /\ [][NextFevd]_vars

\* the factor a call of fevd decomposes with
FactorOf(self, var_decomp) ==
    IF var_decomp = None THEN _chol_sigma_u(self) ELSE Ok(var_decomp[1])

\* P P^T = sigma_u for the factor of the call
IsFactor(self, var_decomp) ==
    \A P \in {FactorOf(self, var_decomp)} :
        P.ok /\ Dot(P.val, Transpose(P.val)) = self.sigma_u

\* the shares of equation i at period h are non-negative and sum to 1
IsShares(row) ==
    /\ \A j \in 1..Len(row) : RLeq(Num(0), row[j])
    /\ RSum(row) = Num(1)

\* the squared orthogonalized responses of variable i up to period h, summed
\* over the shocks, are entry (i, i) of mse at that period
CumulativeIsMse(self, fe) ==
    \A irfs \in {cum_squares(fe.orth_irfs, fe.periods)} :
        \A covs \in {mse(self, fe.periods)} :
            \A h \in 1..fe.periods : \A i \in 1..self.neqs :
                RSum(irfs[h][i]) = covs[h][i][i]

AttrNames ==
    {"resid", "sigma_u_mle", "cov_params", "_zz", "loglike", "stderr", "pvalues",
     "info_criteria", "_chol_sigma_u", "_char_mat"}

\* the attributes an object of the class has
attrs_of(cls) == IF cls = "VARResults" THEN AttrNames ELSE {"_chol_sigma_u", "_char_mat"}

\* no attribute is kept: every one a plain property, as df_model is
plain_properties(cls) == {}

\* the attributes decorated with cache_readonly
cache_readonly_names(cls) == attrs_of(cls)

\* the attributes the getter of an attribute reads, in the order it reads them
reads(name) ==
    CASE name = "loglike" -> <<"resid", "sigma_u_mle">>
      [] name = "stderr" -> <<"cov_params">>
      [] name = "pvalues" -> <<"stderr">>
      [] name = "info_criteria" -> <<"sigma_u_mle">>
      [] OTHER -> <<>>

\* np.log(2 * np.pi) to four decimals
Log2Pi == Frac(18379, 10000)

\* var_loglike(resid, omega, nobs)
var_loglike(resid, omega0, nobs) ==
    The({RAdd(RNeg(RMul(Frac(nobs * Len(omega), 2), Log2Pi)),
              RNeg(RMul(Frac(nobs, 2), RAdd(get_logdet(omega), Num(Len(omega)))))) :
         omega \in {omega0}})

\* stderr: np.sqrt(np.diag(cov_params)) reshaped to (df_model, neqs)
stderr_of(self, cov0) ==
    The({[r \in 1..df_model(self) |-> [c \in 1..self.neqs |->
             Sqrt(d[(r - 1) * self.neqs + c])]] :
         d \in {Diag(cov0)}})

\* pvalues: stats.t.sf(np.abs(self.params / stderr), df_resid) * 2, the
\* survival function left unevaluated
pvalues_of(self, stderr0) ==
    The({[twice_t_sf |-> [r \in 1..Len(se) |-> [c \in 1..Len(se[r]) |->
                             RAbs(RDiv(self.params[r][c], se[r][c]))]],
          df |-> df_resid(self)] :
         se \in {stderr0}})

\* the getter of an attribute, given the values of the attributes it reads
fget(self, name, vals) ==
    CASE name = "resid" ->
           Ok(ols_resid(y_sample(self.y, self.p), self.ys_lagged, self.params))
      [] name = "sigma_u_mle" -> Ok(sigma_u_mle(self))
      [] name = "cov_params" -> cov_params(self)
      [] name = "_zz" -> Ok(_zz(self))
      [] name = "loglike" -> Ok(var_loglike(vals[1], vals[2], self.nobs))
      [] name = "stderr" -> Ok(stderr_of(self, vals[1]))
      [] name = "pvalues" -> Ok(pvalues_of(self, vals[1]))
      [] name = "info_criteria" -> info_criteria(self)
      [] name = "_chol_sigma_u" -> _chol_sigma_u(self)
      [] name = "_char_mat" ->
           Ok(MatSub(Eye(self.neqs), MatSum(self.coefs.a, self.neqs, self.neqs)))

RECURSIVE access(_, _)
RECURSIVE access_all(_, _)
\* the attributes of names read in turn: the object after the reads, the
\* values read or the first exception, and the attributes computed
access_all(self0, names) ==
    IF names = <<>> THEN [self |-> self0, out |-> Ok(<<>>), computed |-> <<>>]
    ELSE The({IF ~first.out.ok THEN first
              ELSE The({[self |-> rest.self,
                         out |-> IF rest.out.ok THEN Ok(<<first.out.val>> \o rest.out.val)
                                 ELSE rest.out,
                         computed |-> first.computed \o rest.computed] :
                        rest \in {access_all(first.self, Tail(names))}}) :
              first \in {access(self0, Head(names))}})

\* decorators.cache_readonly: the read of self.<name>. A decorated attribute
\* found in self._cache is returned from there; otherwise the getter runs,
\* and the value of a decorated attribute is put into self._cache
access(self0, name) ==
    IF name \in cache_readonly_names(self0.cls) /\ self0._cache[name] # None
    THEN [self |-> self0, out |-> Ok(self0._cache[name][1]), computed |-> <<>>]
    ELSE The({IF ~read.out.ok THEN read
              ELSE The({[self |-> IF val.ok /\ name \in cache_readonly_names(self0.cls)
                                  THEN [read.self EXCEPT !._cache[name] = Some(val.val)]
                                  ELSE read.self,
                         out |-> val,
                         computed |-> IF val.ok THEN Append(read.computed, name)
                                      ELSE read.computed] :
                        val \in {fget(read.self, name, read.out.val)}}) :
              read \in {access_all(self0, reads(name))}})

\* the calls made on one object
MaxOps == 3

\* an object as constructed: nothing in self._cache
Fresh(self) ==
    [f \in (DOMAIN self) \cup {"_cache"} |->
        IF f = "_cache" THEN [name \in AttrNames |-> None] ELSE self[f]]

\* results of one and two variables, one of them of a constant series, whose
\* Z'Z is singular, and processes of one and two variables
CachedObjects ==
    {Fresh(_estimate_var(VAR(y, 1), Some(1), "c").val) :
        y \in {<<<<Num(1)>>, <<Num(2)>>, <<Num(0)>>, <<Num(1)>>>>,
               <<<<Num(1)>>, <<Num(1)>>, <<Num(1)>>, <<Num(1)>>>>}}
    \cup {Fresh(_estimate_var(VAR(y, 2), Some(1), "c").val) :
             y \in {s \in Series2 : Len(s) = 5}}
    \cup {Fresh(VARProcess(Tensor(1, <<<<<<Frac(1, 2)>>>>>>), <<Num(1)>>,
                           <<<<Num(4)>>>>)),
          Fresh(VARProcess(Tensor(2, <<<<<<Num(0), Num(-1)>>, <<Num(1), Num(0)>>>>>>),
                           <<Num(1), Num(0)>>, Eye(2)))}

InitCache ==
    /\ obj \in CachedObjects
    /\ model = "none"
    /\ call = [op |-> "init", n |-> 0]
    /\ ret = Ok("none")
    /\ events = <<>>

\* the attributes computed by a call, added to the log
Logged(computed) == events \o [i \in 1..Len(computed) |-> <<"computed", computed[i]>>]

\* a read of self.<name>
Access(name) ==
    /\ call.n < MaxOps
    /\ name \in attrs_of(obj.cls)
    /\ call' = [op |-> "get", n |-> call.n + 1, name |-> name]
    /\ \E r \in {access(obj, name)} :
          /\ obj' = r.self
          /\ ret' = r.out
          /\ events' = Logged(r.computed)
    /\ UNCHANGED model

ThenForecast(y, steps) ==
    /\ call.n < MaxOps
    /\ call' = [op |-> "forecast", n |-> call.n + 1, y |-> y, steps |-> steps]
    /\ ret' = forecast(y, obj.coefs, obj.intercept, steps)
    /\ UNCHANGED <<model, obj, events>>

ThenMse(steps) ==
    /\ call.n < MaxOps
    /\ call' = [op |-> "mse", n |-> call.n + 1, steps |-> steps]
    /\ ret' = Ok(mse(obj, steps))
    /\ UNCHANGED <<model, obj, events>>

\* forecast_cov: mse on a process; on results mse and then _omega_forc_cov,
\* which reads self._zz
ThenForecastCov(steps) ==
    /\ call.n < MaxOps
    /\ call' = [op |-> "forecast_cov", n |-> call.n + 1, steps |-> steps]
    /\ ret' = self_forecast_cov(obj, steps)
    /\ \E r \in {IF obj.cls = "VARResults" THEN access(obj, "_zz")
                 ELSE access_all(obj, <<>>)} :
          /\ obj' = r.self
          /\ events' = Logged(r.computed)
    /\ UNCHANGED model

\* test_causality, which reads self.cov_params once C and Cb are built
ThenTestCausality(equation, variables, kind, crit_value) ==
    /\ call.n < MaxOps
    /\ obj.cls = "VARResults"
    /\ call' = [op |-> "test_causality", n |-> call.n + 1, equation |-> equation,
                variables |-> variables, kind |-> kind, crit_value |-> crit_value]
    /\ ret' = test_causality(obj, equation, variables, kind, crit_value)
    /\ \E r \in {IF obj.p = 0 THEN access_all(obj, <<>>) ELSE access(obj, "cov_params")} :
          /\ obj' = r.self
          /\ events' = Logged(r.computed)
    /\ UNCHANGED model

ThenAcf(nlags) ==
    /\ call.n < MaxOps
    /\ obj.p >= 1
    /\ obj.neqs * obj.p <= 2
    /\ call' = [op |-> "acf", n |-> call.n + 1, nlags |-> nlags]
    /\ ret' = var_acf(obj.coefs, obj.sigma_u, nlags)
    /\ UNCHANGED <<model, obj, events>>

ThenMaRep(maxn) ==
    /\ call.n < MaxOps
    /\ call' = [op |-> "ma_rep", n |-> call.n + 1, maxn |-> maxn]
    /\ ret' = Ok(ma_rep(obj.coefs, maxn))
    /\ UNCHANGED <<model, obj, events>>

NextCache ==
    \/ \E name \in AttrNames : Access(name)
    \/ \E y \in {[t \in 1..2 |-> [c \in 1..obj.neqs |-> Num(t)]]} : ThenForecast(y, 2)
    \/ ThenMse(2)
    \/ ThenForecastCov(2)
    \/ \E kind \in {"f", "lr"} : ThenTestCausality(0, <<0>>, kind, Num(1))
    \/ ThenAcf(Some(1))
    \/ ThenMaRep(2)

SpecCache == InitCache /\ [][NextCache]_vars

\* the parameters of an object and the data they were estimated from
ParametersOf(self) ==
    <<self.coefs, self.intercept, self.sigma_u, self.p, self.neqs,
      IF self.cls = "VARResults" THEN <<self.params, self.y, self.ys_lagged, self.nobs>>
      ELSE <<>>>>

\* how many times the log has the attribute computed
TimesComputed(name) ==
    Cardinality({i \in 1..Len(events) : events[i] = <<"computed", name>>})

\* C13: over any sequence of accesses of the cached attributes and calls of
\* forecast, mse, forecast_cov, test_causality, acf and ma_rep on one object,
\* every cached attribute is computed at most once, an access returns the
\* value kept since the first access, and no step changes a kept value or
\* the parameters of the object.
C13_CachedOnce ==
    [][/\ ParametersOf(obj') = ParametersOf(obj)
       /\ \A name \in AttrNames :
             /\ obj._cache[name] # None => obj'._cache[name] = obj._cache[name]
             /\ TimesComputed(name)' <= 1
             /\ (obj'._cache[name] # None) <=> (TimesComputed(name)' = 1)
       /\ (call'.op = "get" /\ ret'.ok) => obj'._cache[call'.name] = Some(ret'.val)
       /\ (call'.op = "get" /\ obj._cache[call'.name] # None)
          => (ret' = Ok(obj._cache[call'.name][1]) /\ events' = events)]_vars

\* stderr read a second time after test_causality and a first read: it and
\* cov_params are in the log once each
C13_Witness ==
    /\ call.op = "get"
    /\ call.name = "stderr"
    /\ call.n = 3
    /\ ret.ok
    /\ events = <<<<"computed", "cov_params">>, <<"computed", "stderr">>>>
    /\ obj._cache["stderr"] = Some(ret.val)

(***************************************************************************)
(* Properties of the errors of forecast, test_causality and fit            *)
(***************************************************************************)
\* C14 as stated: forecast on a process of order p with fewer than p rows of
\* history fails for every steps, and with at least p rows it does not fail
\* for lack of history (it fails only for p = 0, where no history is read).
C14_ForecastHistory ==
    call.op = "forecast"
    => /\ Len(call.y) < obj.p => ~ret.ok
       /\ (Len(call.y) >= obj.p /\ ~ret.ok) => obj.p = 0

\* C14 amended: with fewer than p rows of history forecast raises IndexError
\* for every steps >= 1 and returns no rows for steps = 0; with at least p
\* rows it returns steps rows, unless p = 0.
C14_ForecastHistorySteps ==
    call.op = "forecast"
    => /\ (Len(call.y) < obj.p /\ call.steps >= 1) => ret = Raise("IndexError")
       /\ (Len(call.y) < obj.p /\ call.steps = 0) => ret = Ok(<<>>)
       /\ (Len(call.y) >= obj.p /\ obj.p >= 1) => (ret.ok /\ Len(ret.val) = call.steps)
       /\ (Len(call.y) >= obj.p /\ ~ret.ok) => obj.p = 0

\* two steps of a process of two lags from one row of history
C14_Witness ==
    /\ call.op = "forecast"
    /\ obj.p = 2
    /\ Len(call.y) = 1
    /\ call.steps = 2
    /\ ret = Raise("IndexError")

\* the message is filled with the value
NamesValue(msg, value) == \E i \in 1..Len(msg.args) : msg.args[i] = <<value>>

\* the message is filled with the names of the set, and nothing else, in
\* one of its places
NamesSet(msg, names) ==
    \E i \in 1..Len(msg.args) : {msg.args[i][n] : n \in 1..Len(msg.args[i])} = names

\* C15: test_causality with a kind that is not 'f' or 'wald' fails, with a
\* message that names the kind passed and the accepted kinds, and returns
\* no results.
C15_InvalidKind ==
    (call.op = "test_causality" /\ call.kind \notin {"f", "wald"})
    => /\ ~ret.ok
       /\ "msg" \in DOMAIN ret
       /\ NamesValue(ret.msg, call.kind)
       /\ NamesSet(ret.msg, {"f", "wald"})

\* C16: fit with an ic that is not aic, bic, hqic or fpe fails with a
\* message that names the ic passed and the accepted names, before any
\* candidate model is estimated.
C16_InvalidIc ==
    (call.op = "fit" /\ call.ic \notin ICNames \cup {"None"})
    => /\ ~ret.ok
       /\ "msg" \in DOMAIN ret
       /\ NamesValue(ret.msg, call.ic)
       /\ NamesSet(ret.msg, ICNames)
       /\ events = <<>>

(***************************************************************************)
(* The finite-sample correction of the forecast covariance                 *)
(***************************************************************************)
InitOmega ==
    /\ obj \in Results
    /\ model = "none"
    /\ call = [op |-> "init"]
    /\ ret = Ok("none")
    /\ events = <<>>

\* the calls of np.linalg.matrix_power of one call of _omega_forc_cov: none
\* when L.inv(G) or _bmat_forc_cov raises
matrix_power_calls(self, steps) ==
    The({IF ~Ginv.ok \/ ~B.ok THEN <<>>
         ELSE The({[n \in 1..Len(calls) |-> <<"matrix_power", calls[n]>>] :
                   calls \in {bpow_of(B.val, steps).calls}}) :
         Ginv \in {L_inv(_zz(self))}, B \in {bmat_outcome(self)}})

OmegaForcCov(steps) ==
    /\ call.op = "init"
    /\ call' = [op |-> "_omega_forc_cov", steps |-> steps]
    /\ ret' = _omega_forc_cov(obj, steps)
    /\ events' = matrix_power_calls(obj, steps)
    /\ UNCHANGED <<model, obj>>

NextOmega == \E steps \in 1..(MaxSteps + 1) : OmegaForcCov(steps)

SpecOmega == InitOmega /\ [][NextOmega]_vars

\* the sum over i, j in 0..h-1 of
\* trace((B^e(i))^T G^-1 B^e(j) G) Phi_i sigma_u Phi_j^T, where e(i) is i
\* when straight and h - 1 - i otherwise
OmegaSum(self, h, straight) ==
    The({MatSum([n \in 1..(h * h) |->
                    The({MatScale(Trace(Dot(Dot3(Transpose(matrix_power(B, IF straight THEN i
                                                                           ELSE h - 1 - i)),
                                                 Ginv,
                                                 matrix_power(B, IF straight THEN j
                                                                 ELSE h - 1 - j)),
                                            G)),
                                  Dot3(phis[i + 1], self.sigma_u, Transpose(phis[j + 1]))) :
                         i \in {(n - 1) \div h}, j \in {(n - 1) % h}})],
                self.neqs, self.neqs) :
         B \in {_bmat_forc_cov(self)}, G \in {_zz(self)}, Ginv \in {L_inv(_zz(self)).val},
         phis \in {ma_rep(self.coefs, h)}})

\* every power of B is computed once, and bpow returns the power itself
PowersOnce(self, steps) ==
    /\ \A n, m \in 1..Len(events) : n # m => events[n] # events[m]
    /\ \A e \in 0..(steps - 1) :
          (steps >= 2) => \E n \in 1..Len(events) : events[n] = <<"matrix_power", e>>
    /\ \A run \in {bpow_of(_bmat_forc_cov(self), steps)} :
          \A e \in DOMAIN run._B : run._B[e] = matrix_power(_bmat_forc_cov(self), e)

\* C17 as stated: Omega(1) = df_model sigma_u, and for h > 1 Omega(h) is the
\* sum over i, j in 0..h-1 of trace((B^i)^T G^-1 B^j G) Phi_i sigma_u Phi_j^T,
\* the i-th power of B paired with Phi_i; every power of B is computed at
\* most once in a call and is the direct matrix power.
C17_OmegaStraight ==
    (call.op = "_omega_forc_cov" /\ ret.ok)
    => /\ ret.val[1] = MatScale(Num(df_model(obj)), obj.sigma_u)
       /\ \A h \in 2..call.steps : ret.val[h] = OmegaSum(obj, h, TRUE)
       /\ PowersOnce(obj, call.steps)

\* C17 amended: the same with the power h - 1 - i of B paired with Phi_i and
\* the power h - 1 - j with Phi_j.
C17_OmegaReversed ==
    (call.op = "_omega_forc_cov" /\ ret.ok)
    => /\ Len(ret.val) = call.steps
       /\ ret.val[1] = MatScale(Num(df_model(obj)), obj.sigma_u)
       /\ \A h \in 2..call.steps : ret.val[h] = OmegaSum(obj, h, FALSE)
       /\ PowersOnce(obj, call.steps)

\* three steps on results of two variables: the powers 0, 1, 2 of B are
\* computed once each, and the pairing changes Omega(2)
C17_Witness ==
    /\ call.op = "_omega_forc_cov"
    /\ call.steps = 3
    /\ obj.neqs = 2
    /\ ret.ok
    /\ Len(events) = 3
    /\ ret.val[2] # OmegaSum(obj, 2, TRUE)
    /\ ret.val[3] = OmegaSum(obj, 3, FALSE)

====
